---- MODULE Spec2Model ----
(***************************************************************************)
(* Model of the STgaMe32 host boot sequence (src/main.c): clock            *)
(* configuration, GPIO and SysTick set-up, UART link set-up, reception of  *)
(* the guest image into SRAM and the hand-off to the guest, together with  *)
(* the SysTick interrupt handler that drives the heartbeat LED.            *)
(***************************************************************************)
EXTENDS Integers, Sequences, FiniteSets, TLC

(***************************************************************************)
(* Program constants (main.c:19-42).                                       *)
(***************************************************************************)
CPU_FREQENCY == 48000000
REF_FREQUENCY_DIV == 8
BLUE_LED_GPIOC_PIN == 8
GREEN_LED_GPIOC_PIN == 9
SYSTICK_PERIOD_US == 10
SYSTICK_FREQ == 1000000 \div SYSTICK_PERIOD_US

\* 0x00002000, 0x20000000, 0x00000400
SRAM_SIZE == 8192
SRAM_VADDR == 536870912
USER_OFFS == 1024

(***************************************************************************)
(* C pointer types used in the address expressions, by the size of the     *)
(* pointed-to element.  Arithmetic on void* and on function pointers is    *)
(* the GNU C extension: the element size is 1.                             *)
(***************************************************************************)
SizeofPointee(type) ==
    CASE type = "uint32_t*" -> 4
      [] type = "void*"     -> 1
      [] type = "void(*)(void)" -> 1
      [] type = "integer"   -> 1

\* The value of the C expression  (type) base + n : the cast binds tighter
\* than +, so the addition is pointer arithmetic on the cast result.
CastThenAdd(type, base, n) == base + n * SizeofPointee(type)

\* #define USER_START SRAM_VADDR + USER_OFFS, substituted textually after a
\* cast to `type` (the macro body carries no parentheses).
USER_START(type) == CastThenAdd(type, SRAM_VADDR, USER_OFFS)

\* #define USER_API_PTR_ADDR USER_START, used as (uint32_t*) USER_API_PTR_ADDR
USER_API_PTR_ADDR(type) == USER_START(type)

\* #define USER_EXEC_START USER_START + 0x2U, used as ((void (*)(void)) USER_EXEC_START)
USER_EXEC_START(type) == CastThenAdd(type, USER_START(type), 2)

\* #define USER_STACK SRAM_VADDR + SRAM_SIZE, used as an asm operand "r"(USER_STACK):
\* the operand syntax supplies the parentheses, the sum is an integer sum.
USER_STACK == CastThenAdd("integer", SRAM_VADDR, SRAM_SIZE)


\* The length without the reserved offset taken off.
USER_MAX_PROG_SIZE_wholeSram == SRAM_SIZE

\* #define USER_MAX_PROG_SIZE SRAM_SIZE - USER_OFFS, used as a whole argument.
USER_MAX_PROG_SIZE == SRAM_SIZE - USER_OFFS

(***************************************************************************)
(* 32-bit unsigned values are kept as two 16-bit halves: TLC's integers    *)
(* are narrower than 2^32.                                                 *)
(***************************************************************************)
Half == 2^16

U32(n) == [hi |-> n \div Half, lo |-> n % Half]

U32Inc(x) ==
    IF x.lo = Half - 1
    THEN [hi |-> IF x.hi = Half - 1 THEN 0 ELSE x.hi + 1, lo |-> 0]
    ELSE [hi |-> x.hi, lo |-> x.lo + 1]

U32Dec(x) ==
    IF x.lo = 0
    THEN [hi |-> IF x.hi = 0 THEN Half - 1 ELSE x.hi - 1, lo |-> Half - 1]
    ELSE [hi |-> x.hi, lo |-> x.lo - 1]

\* x % m for a modulus m < 2^23
U32Mod(x, m) == (((((x.hi * 256) % m) * 256) % m) + x.lo) % m

U32Zero == U32(0)
U32Max == [hi |-> Half - 1, lo |-> Half - 1]

(***************************************************************************)
(* Sampled memory.  SRAM is followed word by word only at the addresses    *)
(* the boot sequence and the claims look at.                               *)
(***************************************************************************)
\* extern struct API API_host: the host's service table, two opaque words.
API_host == <<134217985, 134218001>>

\* Addresses a guest image may name as the place for its service-table copy.
GuestTableA == SRAM_VADDR + 6144
GuestTableB == SRAM_VADDR + 7168
GuestPtrs == {GuestTableA, GuestTableB}

MemAddrs ==
    { SRAM_VADDR, SRAM_VADDR + USER_OFFS - 4,
      SRAM_VADDR + USER_OFFS, SRAM_VADDR + USER_OFFS + 4,
      SRAM_VADDR + 4 * USER_OFFS,
      GuestTableA, GuestTableA + 4, GuestTableB, GuestTableB + 4,
      SRAM_VADDR + SRAM_SIZE - 4 }

LoadAddrs == {a \in MemAddrs : a >= SRAM_VADDR + USER_OFFS}

\* Byte offsets into the transmitted image at which a sampled word starts.
ImageOffs == {a - (SRAM_VADDR + USER_OFFS) : a \in LoadAddrs}

\* The word the sender transmits at byte offset off when the image starts
\* with the pointer word p0 and carries p1 at byte offset 3 * USER_OFFS.
ImageWord(p0, p1, off) ==
    IF off = 0 THEN p0
    ELSE IF off = 3 * USER_OFFS THEN p1
    ELSE off + 7

Images ==
    { [off \in ImageOffs |-> ImageWord(p0, p1, off)] : p0 \in GuestPtrs, p1 \in GuestPtrs }

\* Status values a Serial Link operation may return.
StatusVals == {-2, -1, 0, 1}

\* Bound on the tick interrupts followed in one behaviour.
MaxTicks == 3

(***************************************************************************)
(* State.                                                                  *)
(***************************************************************************)
VARIABLES
    pc,             \* position of the main sequence
    err,            \* main's `err`
    ret,            \* <<status>> once main has returned, <<>> before
    REG_RCC_CR,     \* HSEON, HSERDY, PLLON, PLLRDY
    REG_RCC_CFGR,   \* PLLSRC, PLLMUL, HPRE, SW, SWS, PPRE
    REG_RCC_CFGR2,  \* PREDIV
    GPIOC,          \* IOPCEN, MODER8/9, OTYPER8/9, ODR8
    SYSTICK_CALIB,  \* NOREF, SKEW (read-only hardware flags)
    SYSTICK,        \* RVR, CVR, CLKSOURCE, TICKINT, ENABLE
    period_us,      \* argument of systick_init
    handler_ticks,  \* static unsigned handler_ticks (32 bits)
    led_is_on,      \* static bool led_is_on
    uart,           \* Serial Link: setup, rx_en, tx_en, recv, dest, len, count
    mem,            \* sampled SRAM words
    image,          \* the words the sender transmits
    api_guest,      \* run_code's api_guest, <<>> before it is read
    api_ptr_addr,   \* history: <<address>> run_code read api_guest from
    sp,             \* <<address>> once run_code has set it, <<>> before
    entry,          \* <<address>> once run_code has jumped, <<>> before
    stages,         \* history: boot stages entered, in order
    linkOps,        \* history: Serial Link operations called, in order
    handoff,        \* history: run_code steps done, in order
    fail,           \* history: <<stage, status, operation>> of a negative link status
    ticksFired,     \* history: tick interrupts taken in this behaviour
    sinceToggle,    \* history: ticks since the last toggle (or since boot)
    lastInterval    \* history: <<ticks between the last two toggles>>, <<>> before

hwVars == <<REG_RCC_CR, REG_RCC_CFGR, REG_RCC_CFGR2, GPIOC, SYSTICK_CALIB, SYSTICK, period_us>>
tickVars == <<handler_ticks, led_is_on, ticksFired, sinceToggle, lastInterval>>
linkVars == <<uart, mem, image, linkOps>>
mainVars == <<pc, err, ret, api_guest, api_ptr_addr, sp, entry, stages, handoff, fail>>
vars == <<pc, err, ret, REG_RCC_CR, REG_RCC_CFGR, REG_RCC_CFGR2, GPIOC,
          SYSTICK_CALIB, SYSTICK, period_us, handler_ticks, led_is_on, uart,
          mem, image, api_guest, api_ptr_addr, sp, entry, stages, linkOps,
          handoff, fail, ticksFired, sinceToggle, lastInterval>>

\* main's calls in program order (main.c:264-279), each by the label of its
\* first step; CallAfter(l) is where main continues when the call that
\* starts at l has returned.
MainCalls_selfTestFirst ==
    <<"clk_hseon", "board_gpio_init", "systick_init", "run_tests", "uart_setup",
      "uart_recv_buffer", "run_code">>

MainCalls ==
    <<"clk_hseon", "board_gpio_init", "systick_init", "uart_setup", "run_tests",
      "uart_recv_buffer", "run_code">>

CallAfter(l) == MainCalls[(CHOOSE i \in 1..Len(MainCalls) : MainCalls[i] = l) + 1]

StageOrder ==
    <<"CLOCK_INIT", "GPIO_INIT", "HEARTBEAT_INIT", "LINK_SETUP", "SELF_TEST",
      "RECEIVE", "EXECUTE">>

\* Reset values of the registers and of the program's statics.
ResetHw ==
    /\ REG_RCC_CR = [HSEON |-> FALSE, HSERDY |-> FALSE, PLLON |-> FALSE, PLLRDY |-> FALSE]
    /\ REG_RCC_CFGR = [PLLSRC |-> "HSI_DIV2", PLLMUL |-> 2, HPRE |-> "RESET",
                       SW |-> "HSI", SWS |-> "HSI", PPRE |-> "RESET"]
    /\ REG_RCC_CFGR2 = [PREDIV |-> 1]
    /\ GPIOC = [IOPCEN |-> FALSE, MODER8 |-> "INPUT", MODER9 |-> "INPUT",
                OTYPER8 |-> "RESET", OTYPER9 |-> "RESET", ODR8 |-> FALSE]
    /\ SYSTICK = [RVR |-> U32Zero, CVR |-> 0, CLKSOURCE |-> "REF",
                  TICKINT |-> FALSE, ENABLE |-> FALSE]

Init ==
    /\ pc = "clk_hseon"
    /\ err = 0
    /\ ret = <<>>
    /\ ResetHw
    /\ SYSTICK_CALIB \in [NOREF : {0, 1}, SKEW : {0, 1}]
    /\ period_us = SYSTICK_PERIOD_US
    /\ handler_ticks = U32Zero
    /\ led_is_on = FALSE
    /\ uart = [setup |-> FALSE, rx_en |-> FALSE, tx_en |-> FALSE,
               recv |-> "idle", dest |-> 0, len |-> 0, count |-> 0]
    /\ mem = [a \in MemAddrs |-> 0]
    /\ image \in Images
    /\ api_guest = <<>>
    /\ api_ptr_addr = <<>>
    /\ sp = <<>>
    /\ entry = <<>>
    /\ stages = <<>>
    /\ linkOps = <<>>
    /\ handoff = <<>>
    /\ fail = <<>>
    /\ ticksFired = 0
    /\ sinceToggle = 0
    /\ lastInterval = <<>>

(***************************************************************************)
(* Hardware: the flags the clock tree raises on its own.                   *)
(***************************************************************************)
\* The external oscillator, once switched on, may become stable.
HwHseReady ==
    /\ REG_RCC_CR.HSEON
    /\ ~REG_RCC_CR.HSERDY
    /\ REG_RCC_CR' = [REG_RCC_CR EXCEPT !.HSERDY = TRUE]
    /\ UNCHANGED <<REG_RCC_CFGR, REG_RCC_CFGR2, GPIOC, SYSTICK_CALIB, SYSTICK, period_us>>
    /\ UNCHANGED <<tickVars, linkVars, mainVars>>

\* The PLL, once switched on with a running input, may lock.
HwPllReady ==
    /\ REG_RCC_CR.PLLON
    /\ ~REG_RCC_CR.PLLRDY
    /\ REG_RCC_CFGR.PLLSRC = "HSE_PREDIV" => REG_RCC_CR.HSERDY
    /\ REG_RCC_CR' = [REG_RCC_CR EXCEPT !.PLLRDY = TRUE]
    /\ UNCHANGED <<REG_RCC_CFGR, REG_RCC_CFGR2, GPIOC, SYSTICK_CALIB, SYSTICK, period_us>>
    /\ UNCHANGED <<tickVars, linkVars, mainVars>>

\* The clock switch takes effect once the selected source is ready.
HwClockSwitch ==
    /\ REG_RCC_CFGR.SW = "PLL"
    /\ REG_RCC_CFGR.SWS # "PLL"
    /\ REG_RCC_CR.PLLRDY
    /\ REG_RCC_CFGR' = [REG_RCC_CFGR EXCEPT !.SWS = "PLL"]
    /\ UNCHANGED <<REG_RCC_CR, REG_RCC_CFGR2, GPIOC, SYSTICK_CALIB, SYSTICK, period_us>>
    /\ UNCHANGED <<tickVars, linkVars, mainVars>>

(***************************************************************************)
(* board_clocking_init (main.c:58-92).                                     *)
(***************************************************************************)
\* CHECK_BIT(REG, BIT): the bit of the register, nonzero when it is set.
CHECK_BIT(reg, bit) == reg[bit]

\* while (CHECK_BIT(REG_RCC_CR, REG_RCC_CR_HSERDY)) continue;
HseWaitSpins == CHECK_BIT(REG_RCC_CR, "HSERDY")

\* while (CHECK_BIT(REG_RCC_CR, REG_RCC_CR_PLLRDY)) continue;
PllWaitSpins == CHECK_BIT(REG_RCC_CR, "PLLRDY")

\* while (GET_REG_RCC_CFGR_SWS() != REG_RCC_CFGR_SWS_PLL) continue;
SwsWaitSpins == REG_RCC_CFGR.SWS # "PLL"

\* A step of the main sequence that touches only pc and the clock registers.
ClockFrame ==
    /\ UNCHANGED <<GPIOC, SYSTICK_CALIB, SYSTICK, period_us>>
    /\ UNCHANGED <<tickVars, linkVars>>
    /\ UNCHANGED <<err, ret, api_guest, api_ptr_addr, sp, entry, handoff, fail>>

\* (1) SET_BIT(REG_RCC_CR, REG_RCC_CR_HSEON)
clk_hseon ==
    /\ pc = "clk_hseon"
    /\ REG_RCC_CR' = [REG_RCC_CR EXCEPT !.HSEON = TRUE]
    /\ stages' = Append(stages, "CLOCK_INIT")
    /\ pc' = "clk_hse_wait"
    /\ UNCHANGED <<REG_RCC_CFGR, REG_RCC_CFGR2>>
    /\ ClockFrame

clk_hse_wait ==
    /\ pc = "clk_hse_wait"
    /\ pc' = IF HseWaitSpins THEN "clk_hse_wait" ELSE "clk_prediv"
    /\ UNCHANGED <<REG_RCC_CR, REG_RCC_CFGR, REG_RCC_CFGR2, stages>>
    /\ ClockFrame

\* (2) SET_REG_RCC_CFGR2_PREDIV(2)
clk_prediv ==
    /\ pc = "clk_prediv"
    /\ REG_RCC_CFGR2' = [REG_RCC_CFGR2 EXCEPT !.PREDIV = 2]
    /\ pc' = "clk_pllsrc"
    /\ UNCHANGED <<REG_RCC_CR, REG_RCC_CFGR, stages>>
    /\ ClockFrame

\* (3) SET_REG_RCC_CFGR_PLLSRC(REG_RCC_CFGR_PLLSRC_HSE_PREDIV)
clk_pllsrc ==
    /\ pc = "clk_pllsrc"
    /\ REG_RCC_CFGR' = [REG_RCC_CFGR EXCEPT !.PLLSRC = "HSE_PREDIV"]
    /\ pc' = "clk_pllmul"
    /\ UNCHANGED <<REG_RCC_CR, REG_RCC_CFGR2, stages>>
    /\ ClockFrame

\* (4) SET_REG_RCC_CFGR_PLLMUL(12)
clk_pllmul ==
    /\ pc = "clk_pllmul"
    /\ REG_RCC_CFGR' = [REG_RCC_CFGR EXCEPT !.PLLMUL = 12]
    /\ pc' = "clk_pllon"
    /\ UNCHANGED <<REG_RCC_CR, REG_RCC_CFGR2, stages>>
    /\ ClockFrame

\* (5) SET_BIT(REG_RCC_CR, REG_RCC_CR_PLLON)
clk_pllon ==
    /\ pc = "clk_pllon"
    /\ REG_RCC_CR' = [REG_RCC_CR EXCEPT !.PLLON = TRUE]
    /\ pc' = "clk_pll_wait"
    /\ UNCHANGED <<REG_RCC_CFGR, REG_RCC_CFGR2, stages>>
    /\ ClockFrame

clk_pll_wait ==
    /\ pc = "clk_pll_wait"
    /\ pc' = IF PllWaitSpins THEN "clk_pll_wait" ELSE "clk_hpre"
    /\ UNCHANGED <<REG_RCC_CR, REG_RCC_CFGR, REG_RCC_CFGR2, stages>>
    /\ ClockFrame

\* (6) SET_REG_RCC_CFGR_HPRE_NOT_DIV()
clk_hpre ==
    /\ pc = "clk_hpre"
    /\ REG_RCC_CFGR' = [REG_RCC_CFGR EXCEPT !.HPRE = "NOT_DIV"]
    /\ pc' = "clk_sw"
    /\ UNCHANGED <<REG_RCC_CR, REG_RCC_CFGR2, stages>>
    /\ ClockFrame

\* (7) SET_REG_RCC_CFGR_SW(REG_RCC_CFGR_SW_PLL)
clk_sw ==
    /\ pc = "clk_sw"
    /\ REG_RCC_CFGR' = [REG_RCC_CFGR EXCEPT !.SW = "PLL"]
    /\ pc' = "clk_sws_wait"
    /\ UNCHANGED <<REG_RCC_CR, REG_RCC_CFGR2, stages>>
    /\ ClockFrame

clk_sws_wait ==
    /\ pc = "clk_sws_wait"
    /\ pc' = IF SwsWaitSpins THEN "clk_sws_wait" ELSE "clk_ppre"
    /\ UNCHANGED <<REG_RCC_CR, REG_RCC_CFGR, REG_RCC_CFGR2, stages>>
    /\ ClockFrame

\* (8) SET_REG_RCC_CFGR_PPRE(REG_RCC_CFGR_PPRE_NOT_DIV); the function returns.
clk_ppre ==
    /\ pc = "clk_ppre"
    /\ REG_RCC_CFGR' = [REG_RCC_CFGR EXCEPT !.PPRE = "NOT_DIV"]
    /\ pc' = CallAfter("clk_hseon")
    /\ UNCHANGED <<REG_RCC_CR, REG_RCC_CFGR2, stages>>
    /\ ClockFrame


\* board_gpio_init that also switches the indicator on and records it.
board_gpio_init_ledOn ==
    /\ pc = "board_gpio_init"
    /\ GPIOC' = [GPIOC EXCEPT !.IOPCEN = TRUE,
                              !.MODER8 = "GEN_PURPOSE_OUTPUT",
                              !.MODER9 = "GEN_PURPOSE_OUTPUT",
                              !.OTYPER8 = "PUSH_PULL",
                              !.OTYPER9 = "PUSH_PULL",
                              !.ODR8 = TRUE]
    /\ led_is_on' = TRUE
    /\ stages' = Append(stages, "GPIO_INIT")
    /\ pc' = CallAfter("board_gpio_init")
    /\ UNCHANGED <<REG_RCC_CR, REG_RCC_CFGR, REG_RCC_CFGR2, SYSTICK_CALIB, SYSTICK, period_us>>
    /\ UNCHANGED <<handler_ticks, ticksFired, sinceToggle, lastInterval, linkVars>>
    /\ UNCHANGED <<err, ret, api_guest, api_ptr_addr, sp, entry, handoff, fail>>

(***************************************************************************)
(* board_gpio_init (main.c:153-165).                                       *)
(***************************************************************************)
board_gpio_init ==
    /\ pc = "board_gpio_init"
    /\ GPIOC' = [GPIOC EXCEPT !.IOPCEN = TRUE,
                              !.MODER8 = "GEN_PURPOSE_OUTPUT",
                              !.MODER9 = "GEN_PURPOSE_OUTPUT",
                              !.OTYPER8 = "PUSH_PULL",
                              !.OTYPER9 = "PUSH_PULL"]
    /\ stages' = Append(stages, "GPIO_INIT")
    /\ pc' = CallAfter("board_gpio_init")
    /\ UNCHANGED <<REG_RCC_CR, REG_RCC_CFGR, REG_RCC_CFGR2, SYSTICK_CALIB, SYSTICK, period_us>>
    /\ UNCHANGED <<tickVars, linkVars>>
    /\ UNCHANGED <<err, ret, api_guest, api_ptr_addr, sp, entry, handoff, fail>>

(***************************************************************************)
(* systick_init (main.c:98-147).                                           *)
(***************************************************************************)
SYSTICK_GET_NOREF == SYSTICK_CALIB.NOREF
SYSTICK_GET_SKEW == SYSTICK_CALIB.SKEW

\* bool ref_freq_avail: set in  if (!SYSTICK_GET_NOREF())
ref_freq_avail == SYSTICK_GET_NOREF = 0

\* uint32_t systick_src_freq after lines 100-107
systick_src_freq ==
    IF ref_freq_avail THEN CPU_FREQENCY \div REF_FREQUENCY_DIV ELSE CPU_FREQENCY

\* uint32_t reload_value after lines 109-130.  In the first branch
\* calib_value is read with SYSTICK_GET_SKEW().
reload_value(period) ==
    IF SYSTICK_GET_SKEW = 0
    THEN LET calib_value == SYSTICK_GET_SKEW
         IN  IF ref_freq_avail
             THEN calib_value * period
             ELSE calib_value * period * REF_FREQUENCY_DIV
    ELSE period * (systick_src_freq \div 1000000)

systick_init ==
    /\ pc = "systick_init"
    /\ SYSTICK' = [RVR |-> U32Dec(U32(reload_value(period_us))),
                   CVR |-> 0,
                   CLKSOURCE |-> IF ref_freq_avail THEN "REF" ELSE "CPU",
                   TICKINT |-> TRUE,
                   ENABLE |-> TRUE]
    /\ stages' = Append(stages, "HEARTBEAT_INIT")
    /\ pc' = CallAfter("systick_init")
    /\ UNCHANGED <<REG_RCC_CR, REG_RCC_CFGR, REG_RCC_CFGR2, GPIOC, SYSTICK_CALIB, period_us>>
    /\ UNCHANGED <<tickVars, linkVars>>
    /\ UNCHANGED <<err, ret, api_guest, api_ptr_addr, sp, entry, handoff, fail>>

(***************************************************************************)
(* systick_handler (main.c:171-191), run on every tick interrupt.          *)
(***************************************************************************)
\* (handler_ticks % SYSTICK_FREQ) == 0
ToggleDue(ticks) == U32Mod(ticks, SYSTICK_FREQ) = 0

systick_handler ==
    /\ SYSTICK.ENABLE
    /\ SYSTICK.TICKINT
    /\ ticksFired < MaxTicks
    /\ LET ticks == U32Inc(handler_ticks)
       IN  /\ handler_ticks' = ticks
           /\ led_is_on' = IF ToggleDue(ticks) THEN (led_is_on = FALSE) ELSE led_is_on
           /\ GPIOC' = IF ToggleDue(ticks)
                       THEN [GPIOC EXCEPT !.ODR8 = (led_is_on = FALSE)]
                       ELSE GPIOC
           /\ sinceToggle' = IF ToggleDue(ticks) THEN 0 ELSE sinceToggle + 1
           /\ lastInterval' = IF ToggleDue(ticks) THEN <<sinceToggle + 1>> ELSE lastInterval
    /\ ticksFired' = ticksFired + 1
    /\ UNCHANGED <<REG_RCC_CR, REG_RCC_CFGR, REG_RCC_CFGR2, SYSTICK_CALIB, SYSTICK, period_us>>
    /\ UNCHANGED <<linkVars, mainVars>>

(***************************************************************************)
(* Serial Link driver (uart.h): each operation returns a status; a         *)
(* non-negative status means the operation took effect.                    *)
(***************************************************************************)
uart_setup(u, status) ==
    IF status >= 0 THEN [u EXCEPT !.setup = TRUE] ELSE u

uart_receive_enable(u, status) ==
    IF status >= 0 THEN [u EXCEPT !.rx_en = TRUE] ELSE u

uart_recv_buffer(u, status, dest, len) ==
    IF status >= 0
    THEN [u EXCEPT !.recv = "active", !.dest = dest, !.len = len, !.count = 0]
    ELSE u

is_recv_complete == uart.recv = "complete"

\* Offsets of the sampled words of the running reception not yet stored.
RecvPending ==
    {off \in ImageOffs : off >= uart.count /\ off + 4 <= uart.len}

MinOf(S) == CHOOSE x \in S : \A y \in S : x <= y

\* The link stores the next received word at dest + offset.
HwRecvWord ==
    /\ uart.recv = "active"
    /\ RecvPending # {}
    /\ LET off == MinOf(RecvPending)
           a == uart.dest + off
       IN  /\ mem' = [x \in MemAddrs |-> IF x = a THEN image[off] ELSE mem[x]]
           /\ uart' = [uart EXCEPT !.count = off + 4]
    /\ UNCHANGED <<image, linkOps>>
    /\ UNCHANGED <<hwVars, tickVars, mainVars>>

\* All requested bytes have arrived: the link reports completion.
HwRecvDone ==
    /\ uart.recv = "active"
    /\ RecvPending = {}
    /\ uart' = [uart EXCEPT !.count = uart.len, !.recv = "complete"]
    /\ UNCHANGED <<mem, image, linkOps>>
    /\ UNCHANGED <<hwVars, tickVars, mainVars>>

(***************************************************************************)
(* main (main.c:262-280) with uart_init (197-218), run_tests (286-334)     *)
(* and receive_code (224-240).                                             *)
(***************************************************************************)
Failed_belowMinusOne(status) == status < -1

\* if (err < 0) return err;
Failed(status) == status < 0

LinkFrame ==
    /\ UNCHANGED <<hwVars, tickVars>>
    /\ UNCHANGED <<mem, image, api_guest, api_ptr_addr, sp, entry, handoff>>

\* uart_init without the check of uart_setup's status.
main_uart_setup_unchecked ==
    /\ pc = "uart_setup"
    /\ \E status \in StatusVals :
         /\ uart' = uart_setup(uart, status)
         /\ err' = status
         /\ pc' = "uart_receive_enable"
         /\ UNCHANGED ret
         /\ fail' = IF status < 0 THEN <<"LINK_SETUP", status, "uart_setup">> ELSE fail
    /\ stages' = Append(stages, "LINK_SETUP")
    /\ linkOps' = Append(linkOps, "uart_setup")
    /\ LinkFrame

\* main: uart_init(&uart), up to the return after uart_setup
main_uart_setup ==
    /\ pc = "uart_setup"
    /\ \E status \in StatusVals :
         /\ uart' = uart_setup(uart, status)
         /\ err' = status
         /\ IF Failed(status)
            THEN /\ pc' = "returned"
                 /\ ret' = <<status>>
            ELSE /\ pc' = "uart_receive_enable"
                 /\ UNCHANGED ret
         /\ fail' = IF status < 0 THEN <<"LINK_SETUP", status, "uart_setup">> ELSE fail
    /\ stages' = Append(stages, "LINK_SETUP")
    /\ linkOps' = Append(linkOps, "uart_setup")
    /\ LinkFrame

\* uart_init without the check of uart_receive_enable's status.
main_uart_receive_enable_unchecked ==
    /\ pc = "uart_receive_enable"
    /\ \E status \in StatusVals :
         /\ uart' = uart_receive_enable(uart, status)
         /\ err' = 0
         /\ pc' = CallAfter("uart_setup")
         /\ UNCHANGED ret
         /\ fail' = IF status < 0 THEN <<"LINK_SETUP", status, "uart_receive_enable">> ELSE fail
    /\ linkOps' = Append(linkOps, "uart_receive_enable")
    /\ UNCHANGED stages
    /\ LinkFrame

\* uart_init from uart_receive_enable to its return, and main's check of it
main_uart_receive_enable ==
    /\ pc = "uart_receive_enable"
    /\ \E status \in StatusVals :
         /\ uart' = uart_receive_enable(uart, status)
         /\ IF Failed(status)
            THEN /\ err' = status
                 /\ pc' = "returned"
                 /\ ret' = <<status>>
            ELSE /\ err' = 0
                 /\ pc' = CallAfter("uart_setup")
                 /\ UNCHANGED ret
         /\ fail' = IF status < 0 THEN <<"LINK_SETUP", status, "uart_receive_enable">> ELSE fail
    /\ linkOps' = Append(linkOps, "uart_receive_enable")
    /\ UNCHANGED stages
    /\ LinkFrame


\* run_tests reporting a failure.
run_tests_fails == 0 - 1

\* int run_tests(struct Uart* uart): every statement but `return 0` is
\* commented out.
run_tests == 0

main_run_tests ==
    /\ pc = "run_tests"
    /\ err' = run_tests
    /\ IF Failed(run_tests)
       THEN /\ pc' = "returned"
            /\ ret' = <<run_tests>>
       ELSE /\ pc' = CallAfter("run_tests")
            /\ UNCHANGED ret
    /\ fail' = IF run_tests < 0 THEN <<"SELF_TEST", run_tests, "run_tests">> ELSE fail
    /\ stages' = Append(stages, "SELF_TEST")
    /\ UNCHANGED <<uart, linkOps>>
    /\ LinkFrame


\* receive_code that initiates the reception again after a negative status.
main_uart_recv_buffer_retries ==
    /\ pc = "uart_recv_buffer"
    /\ \E status \in StatusVals :
         /\ uart' = uart_recv_buffer(uart, status, USER_START("void*"), USER_MAX_PROG_SIZE)
         /\ err' = status
         /\ pc' = IF Failed(status) THEN "uart_recv_buffer" ELSE "recv_wait"
         /\ UNCHANGED ret
         /\ fail' = IF status < 0 THEN <<"RECEIVE", status, "uart_recv_buffer">> ELSE fail
    /\ stages' = IF "RECEIVE" \in {stages[i] : i \in 1..Len(stages)}
                 THEN stages ELSE Append(stages, "RECEIVE")
    /\ linkOps' = Append(linkOps, "uart_recv_buffer")
    /\ LinkFrame

\* receive_code: uart_recv_buffer(uart, (void*) USER_START, USER_MAX_PROG_SIZE)
main_uart_recv_buffer ==
    /\ pc = "uart_recv_buffer"
    /\ \E status \in StatusVals :
         /\ uart' = uart_recv_buffer(uart, status, USER_START("void*"), USER_MAX_PROG_SIZE)
         /\ err' = status
         /\ IF Failed(status)
            THEN /\ pc' = "returned"
                 /\ ret' = <<status>>
            ELSE /\ pc' = "recv_wait"
                 /\ UNCHANGED ret
         /\ fail' = IF status < 0 THEN <<"RECEIVE", status, "uart_recv_buffer">> ELSE fail
    /\ stages' = Append(stages, "RECEIVE")
    /\ linkOps' = Append(linkOps, "uart_recv_buffer")
    /\ LinkFrame

RecvWaitSpins_inverted == is_recv_complete = TRUE

\* while (is_recv_complete() == false) continue;
RecvWaitSpins == is_recv_complete = FALSE

\* receive_code's wait loop, its return 0 and main's check of it
main_recv_wait ==
    /\ pc = "recv_wait"
    /\ IF RecvWaitSpins
       THEN /\ pc' = "recv_wait"
            /\ UNCHANGED err
       ELSE /\ pc' = CallAfter("uart_recv_buffer")
            /\ err' = 0
    /\ UNCHANGED <<ret, fail, stages, uart, linkOps>>
    /\ LinkFrame

(***************************************************************************)
(* run_code (main.c:246-256).                                              *)
(***************************************************************************)
\* The sampled word at address a; an address that is not sampled reads 0.
ReadWord(a) == IF a \in MemAddrs THEN mem[a] ELSE 0

\* *dst = API_host: the table's words stored from dst on.
CopyTable(dst) ==
    [a \in MemAddrs |->
        IF \E i \in 1..Len(API_host) : a = dst + 4 * (i - 1)
        THEN API_host[(a - dst) \div 4 + 1]
        ELSE mem[a]]

HandoffFrame ==
    /\ UNCHANGED <<hwVars, tickVars>>
    /\ UNCHANGED <<uart, image, linkOps, err, ret, fail>>

\* struct API* api_guest = (struct API*) *((uint32_t*) USER_API_PTR_ADDR);
run_code_read ==
    /\ pc = "run_code"
    /\ api_ptr_addr' = <<USER_API_PTR_ADDR("uint32_t*")>>
    /\ api_guest' = <<ReadWord(USER_API_PTR_ADDR("uint32_t*"))>>
    /\ stages' = Append(stages, "EXECUTE")
    /\ handoff' = Append(handoff, "read")
    /\ pc' = "run_code_copy"
    /\ UNCHANGED <<mem, sp, entry>>
    /\ HandoffFrame

\* *api_guest = API_host;
run_code_copy ==
    /\ pc = "run_code_copy"
    /\ mem' = CopyTable(api_guest[1])
    /\ handoff' = Append(handoff, "copy")
    /\ pc' = "run_code_sp"
    /\ UNCHANGED <<api_guest, api_ptr_addr, sp, entry, stages>>
    /\ HandoffFrame

\* __asm__ volatile("mov sp, %0"::"r"(USER_STACK));
run_code_sp ==
    /\ pc = "run_code_sp"
    /\ sp' = <<USER_STACK>>
    /\ handoff' = Append(handoff, "sp")
    /\ pc' = "run_code_jump"
    /\ UNCHANGED <<mem, api_guest, api_ptr_addr, entry, stages>>
    /\ HandoffFrame

\* ((void (*)(void)) USER_EXEC_START)();
run_code_jump ==
    /\ pc = "run_code_jump"
    /\ entry' = <<USER_EXEC_START("void(*)(void)")>>
    /\ handoff' = Append(handoff, "jump")
    /\ pc' = "guest"
    /\ UNCHANGED <<mem, api_guest, api_ptr_addr, sp, stages>>
    /\ HandoffFrame

\* The loaded routine returns to its caller.
guest_return ==
    /\ pc = "guest"
    /\ pc' = "idle"
    /\ handoff' = Append(handoff, "return")
    /\ UNCHANGED <<mem, api_guest, api_ptr_addr, sp, entry, stages>>
    /\ HandoffFrame

\* run_code without its final loop: control falls back into main.
run_code_idle_fallsThrough ==
    /\ pc = "idle"
    /\ pc' = "returned"
    /\ ret' = <<err>>
    /\ UNCHANGED <<mem, api_guest, api_ptr_addr, sp, entry, stages, handoff>>
    /\ UNCHANGED <<hwVars, tickVars>>
    /\ UNCHANGED <<uart, image, linkOps, err, fail>>

\* while (1) continue;
run_code_idle ==
    /\ pc = "idle"
    /\ pc' = "idle"
    /\ UNCHANGED <<mem, api_guest, api_ptr_addr, sp, entry, stages, handoff>>
    /\ HandoffFrame

(***************************************************************************)
(* The boot sequence with the hardware and the tick interrupt.             *)
(***************************************************************************)
Next ==
    \/ clk_hseon \/ clk_hse_wait \/ clk_prediv \/ clk_pllsrc \/ clk_pllmul
    \/ clk_pllon \/ clk_pll_wait \/ clk_hpre \/ clk_sw \/ clk_sws_wait \/ clk_ppre
    \/ board_gpio_init \/ systick_init
    \/ main_uart_setup \/ main_uart_receive_enable \/ main_run_tests
    \/ main_uart_recv_buffer \/ main_recv_wait
    \/ run_code_read \/ run_code_copy \/ run_code_sp \/ run_code_jump
    \/ guest_return \/ run_code_idle
    \/ systick_handler
    \/ HwHseReady \/ HwPllReady \/ HwClockSwitch \/ HwRecvWord \/ HwRecvDone

Spec == Init /\ [][Next]_vars

(***************************************************************************)
(* The boot under fair scheduling.  The main sequence keeps executing: a   *)
(* statement of main or of a routine it calls that can change the state    *)
(* is eventually executed (a poll that finds its loop condition true       *)
(* changes nothing and may recur for ever).  The hardware is cooperative:  *)
(* an oscillator that is switched on becomes ready, a PLL that is on with  *)
(* a running input locks, a requested clock switch takes effect, and a     *)
(* reception that was initiated receives its bytes and completes.  Flags   *)
(* once raised stay raised.  Tick interrupts come whenever they like.      *)
(***************************************************************************)
\* The statements of main, from board_clocking_init to the jump of run_code.
MainSequence ==
    \/ clk_hseon \/ clk_hse_wait \/ clk_prediv \/ clk_pllsrc \/ clk_pllmul
    \/ clk_pllon \/ clk_pll_wait \/ clk_hpre \/ clk_sw \/ clk_sws_wait \/ clk_ppre
    \/ board_gpio_init \/ systick_init
    \/ main_uart_setup \/ main_uart_receive_enable \/ main_run_tests
    \/ main_uart_recv_buffer \/ main_recv_wait
    \/ run_code_read \/ run_code_copy \/ run_code_sp \/ run_code_jump

SpecLive ==
    /\ Init
    /\ [][Next]_vars
    /\ WF_vars(MainSequence)
    /\ WF_vars(HwHseReady)
    /\ WF_vars(HwPllReady)
    /\ WF_vars(HwClockSwitch)
    /\ WF_vars(HwRecvWord)
    /\ WF_vars(HwRecvDone)

(***************************************************************************)
(* The heartbeat over long runs.  After systick_init the tick interrupt    *)
(* recurs for as long as the board is powered, whatever the main sequence  *)
(* does; here the main sequence has returned after a failed uart_setup     *)
(* and the behaviour starts after C ticks, for sampled C: at boot, shortly *)
(* before each of the first toggles, and shortly before the 32-bit counter *)
(* wraps.                                                                  *)
(***************************************************************************)
\* Toggles whose approach is sampled, and how many ticks before each.
MaxToggles == 3
MaxBack == 2

\* x / m for a modulus m < 2^23
U32Div(x, m) == ((x.hi * 256) \div m) * 256 + ((((x.hi * 256) % m) * 256) + x.lo) \div m

\* q * SYSTICK_FREQ + r as a 32-bit value
U32FromQR(q, r) ==
    LET low == q * (SYSTICK_FREQ % Half) + r
        high == q * (SYSTICK_FREQ \div Half) + low \div Half
    IN  [hi |-> high % Half, lo |-> low % Half]

TickStarts ==
    {U32Zero}
    \cup {U32FromQR(q - 1, SYSTICK_FREQ - d) : q \in 1..MaxToggles, d \in 1..MaxBack}
    \cup {[hi |-> Half - 1, lo |-> Half - d] : d \in 1..MaxBack}

\* The state C ticks after boot, C < 2^32, with main returned from a failed
\* uart_setup: the handler has toggled C / SYSTICK_FREQ times.
InitTick ==
    /\ pc = "returned"
    /\ err = -1
    /\ ret = <<-1>>
    /\ REG_RCC_CR = [HSEON |-> TRUE, HSERDY |-> TRUE, PLLON |-> TRUE, PLLRDY |-> TRUE]
    /\ REG_RCC_CFGR = [PLLSRC |-> "HSE_PREDIV", PLLMUL |-> 12, HPRE |-> "NOT_DIV",
                       SW |-> "PLL", SWS |-> "PLL", PPRE |-> "NOT_DIV"]
    /\ REG_RCC_CFGR2 = [PREDIV |-> 2]
    /\ SYSTICK_CALIB \in [NOREF : {0, 1}, SKEW : {0, 1}]
    /\ period_us = SYSTICK_PERIOD_US
    /\ SYSTICK = [RVR |-> U32Dec(U32(reload_value(period_us))),
                  CVR |-> 0,
                  CLKSOURCE |-> IF ref_freq_avail THEN "REF" ELSE "CPU",
                  TICKINT |-> TRUE,
                  ENABLE |-> TRUE]
    /\ handler_ticks \in TickStarts
    /\ led_is_on = (U32Div(handler_ticks, SYSTICK_FREQ) % 2 = 1)
    /\ GPIOC = [IOPCEN |-> TRUE, MODER8 |-> "GEN_PURPOSE_OUTPUT",
                MODER9 |-> "GEN_PURPOSE_OUTPUT", OTYPER8 |-> "PUSH_PULL",
                OTYPER9 |-> "PUSH_PULL", ODR8 |-> led_is_on]
    /\ uart = [setup |-> FALSE, rx_en |-> FALSE, tx_en |-> FALSE,
               recv |-> "idle", dest |-> 0, len |-> 0, count |-> 0]
    /\ mem = [a \in MemAddrs |-> 0]
    /\ image \in Images
    /\ api_guest = <<>>
    /\ api_ptr_addr = <<>>
    /\ sp = <<>>
    /\ entry = <<>>
    /\ stages = <<"CLOCK_INIT", "GPIO_INIT", "HEARTBEAT_INIT", "LINK_SETUP">>
    /\ linkOps = <<"uart_setup">>
    /\ handoff = <<>>
    /\ fail = <<"LINK_SETUP", -1, "uart_setup">>
    /\ ticksFired = 0
    /\ sinceToggle = U32Mod(handler_ticks, SYSTICK_FREQ)
    /\ lastInterval = IF U32Div(handler_ticks, SYSTICK_FREQ) >= 2
                      THEN <<SYSTICK_FREQ>> ELSE <<>>

NextTick == systick_handler

SpecTick == InitTick /\ [][NextTick]_vars

(***************************************************************************)
(* Properties.                                                             *)
(***************************************************************************)
Range(seq) == {seq[i] : i \in 1..Len(seq)}
Occurrences(seq, x) == Cardinality({i \in 1..Len(seq) : seq[i] = x})
LastOf(seq) == seq[Len(seq)]
IndexIn(seq, x) == CHOOSE i \in 1..Len(seq) : seq[i] = x

\* The boot stage the statement at a position of main belongs to.
StageOfPc(p) ==
    CASE p \in {"clk_hseon", "clk_hse_wait", "clk_prediv", "clk_pllsrc", "clk_pllmul",
                "clk_pllon", "clk_pll_wait", "clk_hpre", "clk_sw", "clk_sws_wait",
                "clk_ppre"} -> "CLOCK_INIT"
      [] p = "board_gpio_init" -> "GPIO_INIT"
      [] p = "systick_init" -> "HEARTBEAT_INIT"
      [] p \in {"uart_setup", "uart_receive_enable"} -> "LINK_SETUP"
      [] p = "run_tests" -> "SELF_TEST"
      [] p \in {"uart_recv_buffer", "recv_wait"} -> "RECEIVE"
      [] p \in {"run_code", "run_code_copy", "run_code_sp", "run_code_jump",
                "guest", "idle"} -> "EXECUTE"

\* Positions at which main is about to enter a stage it has not entered yet.
StageEntryPcs ==
    {"clk_hseon", "board_gpio_init", "systick_init", "uart_setup", "run_tests",
     "uart_recv_buffer", "run_code"}

HandoffPcs == {"run_code", "run_code_copy", "run_code_sp", "run_code_jump", "guest", "idle"}

\* C1: the stages entered so far are always an initial part of CLOCK_INIT,
\* GPIO_INIT, HEARTBEAT_INIT, LINK_SETUP, SELF_TEST, RECEIVE, EXECUTE, in
\* that order: while main runs, exactly the stages before the one its
\* position is in have been entered (and that one too, once inside it), so
\* none is skipped, none entered twice, and each only after the one before
\* has run to its end.
C1_StagesInOrder ==
    /\ Len(stages) <= Len(StageOrder)
    /\ \A i \in 1..Len(stages) : stages[i] = StageOrder[i]
    /\ pc # "returned" =>
         Len(stages) = IF pc \in StageEntryPcs
                       THEN IndexIn(StageOrder, StageOfPc(pc)) - 1
                       ELSE IndexIn(StageOrder, StageOfPc(pc))

\* All seven stages have been entered and control is with the loaded program.
C1_Witness == pc = "guest" /\ stages = StageOrder

\* C2: once a Serial Link operation of LINK_SETUP, SELF_TEST or RECEIVE has
\* returned a negative status, main has returned exactly that status: the
\* failed stage is the last one entered and its failed operation the last
\* one called, called once, and no step of run_code has been taken.
C2_NegativeStatusAborts ==
    fail # <<>> =>
        /\ pc = "returned"
        /\ ret = <<fail[2]>>
        /\ fail[2] < 0
        /\ LastOf(stages) = fail[1]
        /\ LastOf(linkOps) = fail[3]
        /\ Occurrences(stages, fail[1]) = 1
        /\ Occurrences(linkOps, fail[3]) = 1
        /\ "EXECUTE" \notin Range(stages)
        /\ handoff = <<>>
        /\ api_guest = <<>>
        /\ entry = <<>>

\* The initiation of the reception failed with -2 and main returned -2.
C2_Witness ==
    /\ pc = "returned"
    /\ fail = <<"RECEIVE", -2, "uart_recv_buffer">>
    /\ ret = <<-2>>

\* C3: whenever main is in run_code (about to read the pointer word, or
\* past it), the reception was initiated with a non-negative status and the
\* link reports it complete with all requested bytes stored; and when
\* run_code is about to read, every sampled word of the loadable region
\* holds the transmitted word.
C3_HandoffAfterCompletion ==
    /\ pc \in HandoffPcs =>
         /\ is_recv_complete
         /\ Occurrences(linkOps, "uart_recv_buffer") = 1
         /\ uart.count = uart.len
         /\ RecvPending = {}
         /\ fail = <<>>
    /\ handoff # <<>> => pc \in HandoffPcs
    /\ pc = "run_code" =>
         \A off \in ImageOffs : ReadWord(uart.dest + off) = image[off]

\* run_code has read the pointer word of a completely received image.
C3_Witness == pc = "run_code_copy" /\ handoff = <<"read">> /\ is_recv_complete

\* C4: the clock configuration is past its first wait only if the
\* oscillator's ready flag has become set; as long as the flag is clear,
\* board_clocking_init stays in step 1.
C4_NoProgressUntilHseReady ==
    pc \notin {"clk_hseon", "clk_hse_wait"} => REG_RCC_CR.HSERDY

\* C5: the address run_code reads the service-table pointer from is the
\* address the reception stores its first byte at, the working-memory base
\* plus the reserved offset, and the entry point it calls is that address
\* plus 2.
C5_PointerWordAtRegionBase ==
    /\ api_ptr_addr # <<>> =>
         /\ api_ptr_addr[1] = uart.dest
         /\ api_ptr_addr[1] = SRAM_VADDR + USER_OFFS
    /\ entry # <<>> => entry[1] = uart.dest + 2

\* C6: when control is with the loaded program, the words at the address
\* the image names in its first word are the host's service table, and
\* run_code has copied, then set the stack pointer to the stack top, then
\* jumped, each once.
C6_TableAtGuestAddress ==
    pc = "guest" =>
        /\ handoff = <<"read", "copy", "sp", "jump">>
        /\ sp = <<USER_STACK>>
        /\ \A i \in 1..Len(API_host) : ReadWord(image[0] + 4 * (i - 1)) = API_host[i]

\* C7: once run_code has jumped, main is with the loaded program or in the
\* idle loop, has not returned and has entered every stage exactly once;
\* once the loaded routine has returned, main is in the idle loop.
C7_HandoffIsTerminal ==
    /\ entry # <<>> =>
         /\ pc \in {"guest", "idle"}
         /\ ret = <<>>
         /\ stages = StageOrder
         /\ SubSeq(handoff, 1, 4) = <<"read", "copy", "sp", "jump">>
    /\ "return" \in Range(handoff) =>
         /\ pc = "idle"
         /\ handoff = <<"read", "copy", "sp", "jump", "return">>

\* The loaded routine has returned and the host idles.
C7_Witness == pc = "idle" /\ "return" \in Range(handoff)

\* C8: once uart_setup has returned a negative status, main has returned
\* it, uart_setup is the only link operation ever called (receive is not
\* enabled, no reception initiated), and the tick source is still enabled
\* with its interrupt, so the handler keeps running.
C8_SetupFailureKeepsHeartbeat ==
    (fail # <<>> /\ fail[3] = "uart_setup") =>
        /\ pc = "returned"
        /\ ret = <<fail[2]>>
        /\ linkOps = <<"uart_setup">>
        /\ ~uart.rx_en
        /\ uart.recv = "idle"
        /\ mem = [a \in MemAddrs |-> 0]
        /\ SYSTICK.ENABLE
        /\ SYSTICK.TICKINT
        /\ ticksFired < MaxTicks => ENABLED systick_handler

\* uart_setup failed with -1, main has returned, and the next tick
\* interrupt can still be taken.
C8_Witness ==
    /\ pc = "returned"
    /\ fail = <<"LINK_SETUP", -1, "uart_setup">>
    /\ ticksFired < MaxTicks
    /\ ENABLED systick_handler

\* C9: once systick_init has run, the reload register holds reload - 1
\* with reload = period * (tick clock in MHz) >= 1, the count that makes
\* the selected clock source tick every period microseconds, whatever the
\* calibration flags.
C9_ReloadGivesRequestedRate ==
    SYSTICK.ENABLE =>
        /\ SYSTICK.RVR = U32(period_us * (systick_src_freq \div 1000000) - 1)
        /\ SYSTICK.RVR # U32Max

\* C10: two successive toggles of the indicator are exactly SYSTICK_FREQ
\* ticks apart (the first one SYSTICK_FREQ ticks after boot), no tick in
\* between toggles, and the pin follows led_is_on.
C10_ToggleEveryNTicks ==
    /\ lastInterval # <<>> => lastInterval[1] = SYSTICK_FREQ
    /\ sinceToggle < SYSTICK_FREQ
    /\ GPIOC.ODR8 = led_is_on

\* C11: the tick that wraps the 32-bit counter to zero leaves the spacing
\* of the toggles as it was: a tick that brings handler_ticks to 0 comes
\* exactly SYSTICK_FREQ ticks after the last toggle if it toggles at all,
\* so the interval that ends at the wrap is SYSTICK_FREQ ticks long.
C11_WrapKeepsInterval ==
    (ticksFired > 0 /\ handler_ticks = U32Zero) =>
        \/ sinceToggle # 0
        \/ lastInterval = <<SYSTICK_FREQ>>

\* C13: the reception the Code Loader starts has destination working-memory
\* base + reserved offset and length total size - reserved offset; the
\* bytes stored so far lie in [base + offset, base + size), the sampled
\* words of the host-reserved range stay as they were, every word stored is
\* the transmitted word at its offset, and on completion the whole region
\* holds the transmitted words in order.
C13_ReceptionStaysInRegion ==
    /\ uart.recv # "idle" =>
         /\ uart.dest = SRAM_VADDR + USER_OFFS
         /\ uart.len = SRAM_SIZE - USER_OFFS
         /\ uart.count <= uart.len
         /\ uart.dest + uart.count <= SRAM_VADDR + SRAM_SIZE
    /\ Len(handoff) < 2 =>
         /\ \A a \in MemAddrs : a < SRAM_VADDR + USER_OFFS => mem[a] = 0
         /\ \A off \in ImageOffs :
              mem[SRAM_VADDR + USER_OFFS + off] =
                  IF uart.recv # "idle" /\ off < uart.count THEN image[off] ELSE 0
    /\ (is_recv_complete /\ Len(handoff) < 2) =>
         \A off \in ImageOffs : mem[SRAM_VADDR + USER_OFFS + off] = image[off]

\* A maximum-size reception has completed: the last word of working memory
\* holds the last transmitted word.
C13_Witness ==
    /\ pc = "recv_wait"
    /\ is_recv_complete
    /\ uart.count = SRAM_SIZE - USER_OFFS
    /\ mem[SRAM_VADDR + SRAM_SIZE - 4] = image[SRAM_SIZE - USER_OFFS - 4]

C15_HeartbeatIsolated ==
    [][ /\ (<<handler_ticks, led_is_on>>' # <<handler_ticks, led_is_on>>) =>
             /\ UNCHANGED <<mainVars, linkVars>>
             /\ UNCHANGED <<REG_RCC_CR, REG_RCC_CFGR, REG_RCC_CFGR2, SYSTICK_CALIB,
                            SYSTICK, period_us>>
             /\ GPIOC' = [GPIOC EXCEPT !.ODR8 = led_is_on']
             /\ handler_ticks' = U32Inc(handler_ticks)
        /\ (mainVars' # mainVars) =>
             /\ UNCHANGED <<handler_ticks, led_is_on>>
             /\ GPIOC'.ODR8 = GPIOC.ODR8
      ]_vars

\* The boot has run to the hand-off with tick interrupts taken on the way.
C15_Witness ==
    /\ pc = "guest"
    /\ ticksFired = MaxTicks
    /\ handler_ticks = U32(MaxTicks)
    /\ stages = StageOrder

\* C16: the link operations the host ever calls are uart_setup,
\* uart_receive_enable and uart_recv_buffer, the last at most once;
\* transmit is never enabled and nothing is sent; after a failed initiation
\* main has returned with no reception running and no further call.
C16_OneReceptionNoTransmit ==
    /\ Occurrences(linkOps, "uart_recv_buffer") <= 1
    /\ Range(linkOps) \subseteq {"uart_setup", "uart_receive_enable", "uart_recv_buffer"}
    /\ ~uart.tx_en
    /\ (fail # <<>> /\ fail[3] = "uart_recv_buffer") =>
         /\ pc = "returned"
         /\ uart.recv = "idle"
         /\ LastOf(linkOps) = "uart_recv_buffer"

\* A complete run: the one reception was initiated and the host has handed
\* over, with transmit never enabled.
C16_Witness ==
    /\ pc \in {"guest", "idle"}
    /\ linkOps = <<"uart_setup", "uart_receive_enable", "uart_recv_buffer">>
    /\ ~uart.tx_en

\* C17: the step of main that runs run_tests leaves the link, its history
\* of operations, memory, every register and the heartbeat as they are,
\* yields a non-negative status and takes main on to the reception: the
\* boot never ends in SELF_TEST.
C17_SelfTestInert ==
    [][ (pc = "run_tests" /\ pc' # pc) =>
            /\ pc' = "uart_recv_buffer"
            /\ err' >= 0
            /\ UNCHANGED <<uart, linkOps, mem, image>>
            /\ UNCHANGED <<hwVars, tickVars>>
            /\ UNCHANGED <<ret, fail, api_guest, api_ptr_addr, sp, entry, handoff>>
            /\ stages' = Append(stages, "SELF_TEST")
      ]_vars

\* SELF_TEST has run and main is about to initiate the reception, the link
\* set up and enabled for receive and no reception started.
C17_Witness ==
    /\ pc = "uart_recv_buffer"
    /\ LastOf(stages) = "SELF_TEST"
    /\ err = 0
    /\ linkOps = <<"uart_setup", "uart_receive_enable">>
    /\ uart.recv = "idle"

\* C18: the link operations are issued in the order setup, receive-enable,
\* receive initiation, each only after the one before took effect; a
\* negative status of uart_receive_enable ends the boot with that status,
\* and no reception is initiated on a link whose setup or receive-enable
\* failed.
C18_LinkOpsInOrder ==
    /\ \E n \in 0..3 :
         linkOps = SubSeq(<<"uart_setup", "uart_receive_enable", "uart_recv_buffer">>, 1, n)
    /\ Len(linkOps) >= 2 => uart.setup
    /\ Len(linkOps) >= 3 => (uart.setup /\ uart.rx_en)
    /\ (~uart.setup \/ ~uart.rx_en) => uart.recv = "idle"
    /\ (fail # <<>> /\ fail[3] \in {"uart_setup", "uart_receive_enable"}) =>
         /\ pc = "returned"
         /\ ret = <<fail[2]>>
         /\ err = fail[2]
         /\ LastOf(linkOps) = fail[3]
         /\ "uart_recv_buffer" \notin Range(linkOps)
         /\ ~("SELF_TEST" \in Range(stages))

\* uart_receive_enable has failed after a successful setup and main has
\* returned its status.
C18_Witness ==
    /\ fail = <<"LINK_SETUP", -1, "uart_receive_enable">>
    /\ pc = "returned"
    /\ ret = <<-1>>
    /\ uart.setup
    /\ ~uart.rx_en

\* C19: with cooperative hardware and a fairly scheduled main sequence, a
\* boot in which no link operation ever returns a negative status
\* eventually reaches EXECUTE and jumps to the loaded program.
C19_BootReachesExecute ==
    ([](fail = <<>>)) => <>(entry # <<>> /\ LastOf(stages) = "EXECUTE")

====
